---- MODULE Spec2Model ----
(***************************************************************************)
(* Model of the market-mate reasoning workflow (src/src/chat/reasoning.py): *)
(* the LangGraph state machine input -> cot -> {tool_call | summarizer |    *)
(* cot | output}, tool_call -> {cot | output}, summarizer -> output.        *)
(*                                                                          *)
(* Text values (Python str) are modelled as sequences of string pieces, so  *)
(* that an f-string is the concatenation of its literal and interpolated    *)
(* parts: "" is <<>>, f"Conversation summary: {s}" is                       *)
(* <<"Conversation summary: ">> \o s.  Python None is the value None below. *)
(* The graph hands every node the state its predecessor returned; the       *)
(* conditional edges are evaluated on that state as part of the node's step.*)
(***************************************************************************)
EXTENDS Integers, Sequences, FiniteSets, TLC

\* ------------------------------------------------------------------ bounds
MaxIter == 3        \* largest max_iterations a turn is started with
MaxToolCalls == 2   \* largest number of tool calls the completions of a turn request
MaxHistory == 1     \* stored (human, ai) exchanges of a session that is not new

\* --------------------------------------------------------- text constants
None == <<"<None>">>
Empty == <<>>
Truthy(s) == s # None /\ s # Empty

SYSTEM_PROMPT == <<"You are MarketMate, a financial market data expert.">>
user_query == <<"user query">>
MaxReasoningMsg == <<"Unable to process query after maximum reasoning attempts.">>
MaxFunctionCallsMsg == <<"Unable to process query after maximum function calls.">>
NoToolCallMsg == <<"No tool call found in previous step.">>
ClarificationMsg == <<"Please provide more details to proceed with your query.">>
InvalidError == <<"Query is not related to financial markets. Please ask about stocks, earnings, or financial news.">>

\* texts of the exceptions the collaborators raise
LLMErrorText == <<"litellm.APIConnectionError">>
JSONErrorText == <<"Expecting value: line 1 column 1 (char 0)">>
TypeErrorText == <<"TypeError: unexpected or missing keyword argument">>

\* ------------------------------------------------------------ transcript
NoCalls == <<>>
Msg(role, content) ==
    [role |-> role, content |-> content, name |-> "", tool_call_id |-> 0, tool_calls |-> NoCalls]
AssistantToolMsg(content, calls) ==
    [role |-> "assistant", content |-> content, name |-> "", tool_call_id |-> 0, tool_calls |-> calls]
\* variant that does not carry the call's id
FunctionMsgNoId(name, id, content) ==
    [role |-> "function", content |-> content, name |-> name, tool_call_id |-> 0, tool_calls |-> NoCalls]
FunctionMsg(name, id, content) ==
    [role |-> "function", content |-> content, name |-> name, tool_call_id |-> id, tool_calls |-> NoCalls]

\* list.insert(i, x) of Python with 0-based i <= len
Insert(s, i, x) == SubSeq(s, 1, i) \o <<x>> \o SubSeq(s, i + 1, Len(s))

\* lst[-k:]
LastK(s, k) == IF Len(s) <= k THEN s ELSE SubSeq(s, Len(s) - k + 1, Len(s))

RECURSIVE CountRole(_, _)
CountRole(s, role) ==
    IF s = <<>> THEN 0
    ELSE (IF Head(s).role = role THEN 1 ELSE 0) + CountRole(Tail(s), role)

SummaryEntry(s) == Msg("system", <<"Conversation summary: ">> \o s)

\* ------------------------------------------------------- stored session
\* RoleEnum: human is an alias of user, so both members carry the value "user"
RoleEnum == [system |-> "system", user |-> "user", human |-> "user", ai |-> "assistant"]

\* a Message row of a Conversation
Row(role, content) == [role |-> role, content |-> content]

HistoryWindow == 10
RECURSIVE StoredMessages(_)
StoredMessages(n) ==
    IF n = 0 THEN <<>>
    ELSE StoredMessages(n - 1) \o <<Row(RoleEnum.human, <<"earlier question">>),
                                    Row(RoleEnum.ai, <<"earlier answer">>)>>

StoredSummaries == {Empty, <<"stored summary">>}

\* the rows of a session that run_chat_graph hands to the graph: human and ai
\* rows, each as a dict carrying the role's value, the last K of them
WindowMessages(rows) ==
    LET kept == SelectSeq(rows, LAMBDA m : m.role \in {RoleEnum.human, RoleEnum.ai})
    IN  LastK([i \in 1..Len(kept) |-> Msg(kept[i].role, kept[i].content)], HistoryWindow)

\* --------------------------------------------------------- tool registry
FUNCTION_NAMES == {"get_financial_news", "get_quarterly_results", "invalid"}

\* keyword parameters of each registered function (all are required)
FunctionParams(name) ==
    CASE name = "get_financial_news" -> {"company_name"}
      [] name = "get_quarterly_results" -> {"company_name", "quarter"}
      [] name = "invalid" -> {}
      [] OTHER -> {}

\* argument strings the model may emit for a call
ArgsNone == "{}"
ArgsCompany == "{\"company_name\": \"Apple\"}"
ArgsCompanyQuarter == "{\"company_name\": \"Apple\", \"quarter\": \"2024-Q4\"}"
ArgsNotJson == "company_name=Apple"

\* json.loads: ok = FALSE when the string is not JSON, else the object's keys
JsonLoads(a) ==
    CASE a = ArgsNone -> [ok |-> TRUE, keys |-> {}]
      [] a = ArgsCompany -> [ok |-> TRUE, keys |-> {"company_name"}]
      [] a = ArgsCompanyQuarter -> [ok |-> TRUE, keys |-> {"company_name", "quarter"}]
      [] OTHER -> [ok |-> FALSE, keys |-> {}]

\* await FUNCTION_MAP[name](**args): Python raises TypeError unless the
\* keywords are exactly the function's parameters; the mock functions
\* themselves never raise
CallRaises(name, keys) == keys # FunctionParams(name)

\* json.dumps(result) of a successful call
ResultJson(name) ==
    IF name = "invalid" THEN <<"{\"error\": ">> \o InvalidError \o <<"}">>
    ELSE <<"{\"company_name\": ...} from ", name>>

\* the (name, arguments) pairs a completion may request
ToolCallChoices ==
    { <<"get_financial_news", ArgsCompany>>,
      <<"get_financial_news", ArgsNotJson>>,
      <<"get_quarterly_results", ArgsCompany>>,
      <<"invalid", ArgsNone>>,
      <<"invalid", ArgsCompany>>,
      <<"get_stock_price", ArgsCompany>> }

ToolCall(id, choice) == [id |-> id, name |-> choice[1], arguments |-> choice[2]]

\* tool-call lists of 1..k calls; the i-th call carries id i
ToolCallLists(k) ==
    UNION { { [i \in 1..n |-> ToolCall(i, f[i])] : f \in [1..n -> ToolCallChoices] } : n \in 1..k }

\* number of tool calls requested so far in the transcript
RECURSIVE CallsRequested(_)
CallsRequested(msgs) ==
    IF msgs = <<>> THEN 0 ELSE Len(Head(msgs).tool_calls) + CallsRequested(Tail(msgs))

HasInvalid(calls) == \E i \in 1..Len(calls) : calls[i].name = "invalid"

\* ------------------------------------------------------- tool_call_node
\* the for-loop over last_message["tool_calls"], from call i on.
\* exit is "complete" (loop ran to its end), "invalid" (return at the invalid
\* tool) or "error" (exception caught by the outer except)
\* variants of the per-call outcome: a registry miss escapes to the outer
\* handler like a parse error, and a returning invalid tool is treated like
\* any other function
CallKindUnknownAborts(tc) ==
    LET args == JsonLoads(tc.arguments)
    IN  IF ~args.ok \/ tc.name \notin FUNCTION_NAMES THEN "bad_json"
        ELSE IF CallRaises(tc.name, args.keys) THEN "raised"
        ELSE IF tc.name = "invalid" THEN "invalid"
        ELSE "ok"
CallKindInvalidContinues(tc) ==
    LET args == JsonLoads(tc.arguments)
    IN  IF ~args.ok THEN "bad_json"
        ELSE IF tc.name \notin FUNCTION_NAMES THEN "unknown"
        ELSE IF CallRaises(tc.name, args.keys) THEN "raised"
        ELSE "ok"

\* what happens to one call of the batch: json.loads fails ("bad_json"), the
\* name is not in FUNCTION_MAP ("unknown"), the function raises ("raised"),
\* the invalid tool returns ("invalid"), another function returns ("ok")
CallKind(tc) ==
    LET args == JsonLoads(tc.arguments)
    IN  IF ~args.ok THEN "bad_json"
        ELSE IF tc.name \notin FUNCTION_NAMES THEN "unknown"
        ELSE IF CallRaises(tc.name, args.keys) THEN "raised"
        ELSE IF tc.name = "invalid" THEN "invalid"
        ELSE "ok"

\* the function-role entry appended for a call
CallEntry(tc, kind) ==
    FunctionMsg(tc.name, tc.id,
        CASE kind = "unknown" -> <<"{\"error\": \"Invalid function ", tc.name, "\"}">>
          [] kind = "raised" -> <<"{\"error\": \"Error executing ", tc.name, ": ">>
                                    \o TypeErrorText \o <<"\"}">>
          [] OTHER -> ResultJson(tc.name))

RECURSIVE RunBatch(_, _, _, _)
RunBatch(calls, i, msgs, resp) ==
    IF i > Len(calls) THEN [messages |-> msgs, response |-> resp, exit |-> "complete"]
    ELSE LET tc == calls[i]
             kind == CallKind(tc)
         IN  IF kind = "bad_json"
             THEN [messages |-> msgs,
                   response |-> <<"Error processing tool calls: ">> \o JSONErrorText,
                   exit |-> "error"]
             ELSE IF kind = "invalid"
             THEN [messages |-> Append(msgs, CallEntry(tc, kind)),
                   response |-> InvalidError,
                   exit |-> "invalid"]
             ELSE RunBatch(calls, i + 1, Append(msgs, CallEntry(tc, kind)), resp)

\* ------------------------------------------------------------- routing
\* conditional edge after cot
RouteAfterCotStopFirst(msgs, fr, resp, it, mx) ==
    IF fr = "stop" \/ Truthy(resp) THEN "summarizer"
    ELSE IF msgs[Len(msgs)].tool_calls # NoCalls THEN "tool_call"
    ELSE IF it < mx THEN "cot"
    ELSE "output"
RouteAfterCot(msgs, fr, resp, it, mx) ==
    IF msgs[Len(msgs)].tool_calls # NoCalls THEN "tool_call"
    ELSE IF fr = "stop" \/ Truthy(resp) THEN "summarizer"
    ELSE IF it < mx THEN "cot"
    ELSE "output"

\* conditional edge after tool_call
RouteAfterToolCall(msgs, resp) ==
    IF Truthy(resp)
       \/ \E i \in 1..Len(msgs) : msgs[i].role = "function" /\ msgs[i].name = "invalid"
    THEN "output"
    ELSE "cot"

\* ------------------------------------------------------ LLM completions
\* what litellm.acompletion may give the reasoning call: an exception
\* (ok = FALSE), a tool-call completion, or a completion without tool calls
\* (a provider may report finish_reason "stop" together with a tool call)
ToolCompletions(k) ==
    { [ok |-> TRUE, content |-> Empty, tool_calls |-> c, finish_reason |-> "tool_calls"] :
        c \in ToolCallLists(k) }
    \cup { [ok |-> TRUE, content |-> Empty, tool_calls |-> c, finish_reason |-> "stop"] :
             c \in ToolCallLists(IF k > 0 THEN 1 ELSE 0) }
TextCompletions ==
    { [ok |-> TRUE, content |-> c, tool_calls |-> NoCalls, finish_reason |-> fr] :
        c \in {Empty, <<"model answer">>}, fr \in {"stop", "length"} }
    \cup { [ok |-> TRUE, content |-> None, tool_calls |-> NoCalls, finish_reason |-> "stop"] }
FailedCompletion == [ok |-> FALSE, content |-> None, tool_calls |-> NoCalls, finish_reason |-> "None"]
Completions(k) == ToolCompletions(k) \cup TextCompletions \cup {FailedCompletion}

\* what the summarization call may give: an exception, or a completion whose
\* message.content is None or a text
SummaryCompletions ==
    { [ok |-> FALSE, content |-> None] } \cup
    { [ok |-> TRUE, content |-> c] : c \in {None, <<"new summary">>} }

\* the shape of a completion, as the caller of the LLM sees it
Shape(c) ==
    [kind |-> IF ~c.ok THEN "fail"
              ELSE IF c.tool_calls # NoCalls THEN "tools"
              ELSE IF c.finish_reason = "stop" THEN "stop"
              ELSE IF c.content \in {None, Empty} THEN "incomplete"
              ELSE "text",
     invalid |-> HasInvalid(c.tool_calls),
     content |-> c.content]

\* x or y of Python on text values
Or(x, y) == IF Truthy(x) THEN x ELSE y

\* --------------------------------------------------------------- state
VARIABLES
    pc,                  \* node the graph runs next ("done" = END)
    messages, summary, response, is_financial, iteration, max_iterations,
    user_message_count, finish_reason,          \* ChatState fields
    llm_calls,           \* call_llm invocations made by cot_node this turn
    summary_calls,       \* call_llm invocations made by summarizer_node
    tool_passes,         \* executions of tool_call_node
    llm_input,           \* messages argument of the last call_llm
    cot_log,             \* the completions cot_node received, by shape
    cap_hit,             \* cot or tool_call was entered with iteration >= max_iterations
    step,                \* observation of the last node execution
    session              \* the Conversation: its Message rows and its summary

VARIABLES
    request_counts,      \* rate_limiter.request_counts: user_id -> list of (timestamp, tokens)
    clock,               \* what datetime.now() returns, in seconds
    coroutines,          \* the check_rate_limit coroutines: position, arguments, locals, outcome
    accepted,            \* every call that returned normally: user, tier and time
    checks               \* check_rate_limit calls started

VARIABLES
    conversations,       \* Conversation rows of the database: session id -> owner
    rows,                \* Message rows of the database, per conversation id
    langgraph_memory,    \* routes.langgraph_memory
    reply,               \* the last HTTP response of the chat router
    requests             \* requests handled by the chat router

limiter_vars == <<request_counts, clock, coroutines, accepted, checks>>
routes_vars == <<conversations, rows, langgraph_memory, reply, requests>>

workflow_vars ==
    <<session, pc, messages, summary, response, is_financial, iteration, max_iterations,
      user_message_count, finish_reason, llm_calls, summary_calls, tool_passes,
      llm_input, cot_log, cap_hit, step>>

vars == <<session, pc, messages, summary, response, is_financial, iteration, max_iterations,
          user_message_count, finish_reason, llm_calls, summary_calls, tool_passes,
          llm_input, cot_log, cap_hit, step, limiter_vars, routes_vars>>

NoStep == [node |-> "none", kind |-> "none", entry_iteration |-> 0, entry_messages |-> <<>>,
           entry_summary |-> Empty, route |-> "input", attempts |-> 0]

\* ------------------------------------------- rate limiter and chat router
\* users known to user_to_tier, and one whose tier is not in tier_limits
Users == {"user123", "user456", "guest"}
TierOf(u) ==
    CASE u = "user123" -> "free-tier"
      [] u = "user456" -> "paid-tier"
      [] OTHER -> "trial"

\* two coroutines that may be inside check_rate_limit at the same time
Tasks == {"a", "b"}
NoCall == [pc |-> "idle", user_id |-> "", tier |-> "", now |-> 0,
           recent_requests |-> 0, recent_tokens |-> 0, outcome |-> "none"]

\* the module-level state of rate_limiter.py after import
LimiterAtImport ==
    /\ request_counts = [u \in Users |-> <<>>]
    /\ clock = 0
    /\ coroutines = [t \in Tasks |-> NoCall]
    /\ accepted = <<>>
    /\ checks = 0

\* session ids a request may name; owner "" means the id has no Conversation row
MaxSessions == 3
SessionIds == 1..MaxSessions
NoReply == [endpoint |-> "none", status |-> 0, user |-> "", session_id |-> 0, created |-> 0]

\* an empty database and the module-level state of routes.py after import
RoutesAtImport ==
    /\ conversations = [i \in SessionIds |-> ""]
    /\ rows = [i \in SessionIds |-> <<>>]
    /\ langgraph_memory = [i \in SessionIds |-> [present |-> FALSE, history |-> <<>>]]
    /\ reply = NoReply
    /\ requests = 0

\* run_chat_graph: the ChatState handed to workflow.ainvoke
Init ==
    /\ pc = "input"
    /\ \E n \in {0, MaxHistory}, s \in StoredSummaries :
          session = [messages |-> StoredMessages(n), summary |-> s]
    /\ messages = WindowMessages(session.messages)
    /\ user_message_count = CountRole(session.messages, RoleEnum.human) + 1
    /\ summary = Or(session.summary, Empty)
    /\ response = None
    /\ is_financial = "None"
    /\ iteration = 0
    /\ max_iterations \in 0..MaxIter
    /\ finish_reason = "None"
    /\ llm_calls = 0
    /\ summary_calls = 0
    /\ tool_passes = 0
    /\ llm_input = <<>>
    /\ cot_log = <<>>
    /\ cap_hit = FALSE
    /\ step = NoStep
    /\ LimiterAtImport
    /\ RoutesAtImport

\* input_node
InputNode ==
    /\ pc = "input"
    /\ LET msgs == Insert(messages, 0, Msg("system", SYSTEM_PROMPT))
       IN  /\ messages' = msgs
           /\ user_message_count' = CountRole(msgs, "human")
    /\ pc' = "cot"
    /\ step' = [NoStep EXCEPT !.node = "input", !.entry_messages = messages,
                              !.entry_summary = summary, !.route = "cot"]
    /\ UNCHANGED <<limiter_vars, routes_vars, session, summary, response, is_financial, iteration, max_iterations,
                   finish_reason, llm_calls, summary_calls, tool_passes, llm_input,
                   cot_log, cap_hit>>

\* ------------------------------------------------------------ cot_node
\* variants of the guard: off by one, and not applied on the first pass
CotExhaustedOffByOne(it, mx) == it > mx
CotExhaustedAfterFirst(it, mx) == it >= mx /\ it > 0

\* variant without the guard
CotExhaustedNever(it, mx) == FALSE

\* the guard at the top of cot_node
CotExhausted(it, mx) == it >= mx

\* variant that never adds the summary entry
SentMessagesNoSummary(msgs, it, sum) ==
    IF it = 0 THEN msgs \o <<Msg("user", user_query)>> ELSE msgs

\* the list bound to the local name `messages` that is passed to call_llm
SentMessages(msgs, it, sum) ==
    LET base == IF it = 0 THEN msgs \o <<Msg("user", user_query)>> ELSE msgs
    IN  IF Truthy(sum) THEN Insert(base, 1, SummaryEntry(sum)) ELSE base

\* variants of the splice: the summary entry put in front of the transcript,
\* and the summary entry written over the entry at index 1
SplicedAtFront(msgs, it, sum) ==
    IF it # 0 /\ Truthy(sum) THEN Insert(msgs, 0, SummaryEntry(sum)) ELSE msgs
SplicedOverwriting(msgs, it, sum) ==
    IF it # 0 /\ Truthy(sum) /\ Len(msgs) >= 2
    THEN [msgs EXCEPT ![2] = SummaryEntry(sum)] ELSE msgs

\* state.messages once the local list is built: on iteration 0 the local list
\* is a copy (list + list), afterwards it is state.messages itself, so that
\* insert(1, ...) changes the state's transcript
SplicedStateMessages(msgs, it, sum) ==
    IF it = 0 THEN msgs ELSE SentMessages(msgs, it, sum)

\* variant without the clarification default
StopResponseNoDefault(content) == content

\* response of a completion that stopped without tool calls
StopResponse(content) == Or(content, ClarificationMsg)

\* variant that classifies on every pass
ClassifyEveryPass(it, old, calls) == IF HasInvalid(calls) THEN "False" ELSE "True"

\* is_financial as decided by a pass (first iteration only)
Classify(it, old, calls) ==
    IF it # 0 THEN old
    ELSE IF HasInvalid(calls) THEN "False" ELSE "True"

\* @retry(stop=stop_after_attempt(3), wait=wait_fixed(1)) re-runs cot_node only
\* when the call raises.  From call_llm on, the body sits in try/except
\* Exception and returns the state for every completion, a failed one
\* included, so nothing reaches the decorator
StopAfterAttempt == 3
CotNodeRaisesOnFailure(c) == ~c.ok
CotNodeRaises(c) == FALSE
Attempts(c) == IF CotNodeRaises(c) THEN StopAfterAttempt ELSE 1

\* the fields cot_node leaves behind for completion c, the guard having passed
CotResult(c) ==
    LET stmsgs == SplicedStateMessages(messages, iteration, summary)
        content == Or(c.content, Empty)
    IN  IF ~c.ok
        THEN [kind |-> "fail", messages |-> stmsgs, finish_reason |-> finish_reason,
              response |-> <<"Error processing query: ">> \o LLMErrorText,
              is_financial |-> "False", iteration |-> iteration]
        ELSE IF c.tool_calls # NoCalls
        THEN [kind |-> "tools",
              messages |-> Append(stmsgs, AssistantToolMsg(content, c.tool_calls)),
              finish_reason |-> c.finish_reason, response |-> response,
              is_financial |-> Classify(iteration, is_financial, c.tool_calls),
              iteration |-> iteration]
        ELSE LET base == [kind |-> "stop",
                          messages |-> Append(stmsgs, Msg("assistant", content)),
                          finish_reason |-> c.finish_reason, response |-> response,
                          is_financial |-> Classify(iteration, is_financial, NoCalls),
                          iteration |-> iteration]
             IN  IF c.finish_reason = "stop"
                 THEN [base EXCEPT !.response = StopResponse(content)]
                 ELSE IF Truthy(content)
                 THEN [base EXCEPT !.kind = "text", !.response = content]
                 ELSE [base EXCEPT !.kind = "incomplete", !.iteration = iteration + 1]

CotNode ==
    /\ pc = "cot"
    /\ IF CotExhausted(iteration, max_iterations)
       THEN /\ response' = MaxReasoningMsg
            /\ pc' = RouteAfterCot(messages, finish_reason, MaxReasoningMsg, iteration, max_iterations)
            /\ step' = [node |-> "cot", kind |-> "exhausted", entry_iteration |-> iteration,
                        entry_messages |-> messages, entry_summary |-> summary,
                        route |-> pc', attempts |-> 0]
            /\ UNCHANGED <<messages, is_financial, iteration, finish_reason, llm_calls,
                           llm_input, cot_log>>
       ELSE \E c \in Completions(MaxToolCalls - CallsRequested(messages)) :
              LET r == CotResult(c)
              IN  /\ llm_input' = SentMessages(messages, iteration, summary)
                  /\ llm_calls' = llm_calls + 1
                  /\ cot_log' = Append(cot_log, Shape(c))
                  /\ messages' = r.messages
                  /\ finish_reason' = r.finish_reason
                  /\ response' = r.response
                  /\ is_financial' = r.is_financial
                  /\ iteration' = r.iteration
                  /\ pc' = IF CotNodeRaises(c) THEN "raised"
                            ELSE RouteAfterCot(r.messages, r.finish_reason, r.response,
                                               r.iteration, max_iterations)
                  /\ step' = [node |-> "cot", kind |-> r.kind, entry_iteration |-> iteration,
                              entry_messages |-> messages, entry_summary |-> summary,
                              route |-> pc', attempts |-> Attempts(c)]
    /\ cap_hit' = (cap_hit \/ iteration >= max_iterations)
    /\ UNCHANGED <<limiter_vars, routes_vars, session, summary, max_iterations, user_message_count, summary_calls, tool_passes>>

\* ------------------------------------------------------- tool_call_node
ToolExhausted(it, mx) == it >= mx

ToolCallNode ==
    /\ pc = "tool_call"
    /\ tool_passes' = tool_passes + 1
    /\ cap_hit' = (cap_hit \/ iteration >= max_iterations)
    /\ LET last_message == messages[Len(messages)]
       IN  IF ToolExhausted(iteration, max_iterations)
           THEN /\ response' = MaxFunctionCallsMsg
                /\ pc' = RouteAfterToolCall(messages, MaxFunctionCallsMsg)
                /\ step' = [node |-> "tool_call", kind |-> "exhausted", entry_iteration |-> iteration,
                            entry_messages |-> messages, entry_summary |-> summary,
                            route |-> pc', attempts |-> 0]
                /\ UNCHANGED <<messages, iteration>>
           ELSE IF last_message.tool_calls = NoCalls
           THEN /\ response' = NoToolCallMsg
                /\ pc' = RouteAfterToolCall(messages, NoToolCallMsg)
                /\ step' = [node |-> "tool_call", kind |-> "no_tool_call", entry_iteration |-> iteration,
                            entry_messages |-> messages, entry_summary |-> summary,
                            route |-> pc', attempts |-> 0]
                /\ UNCHANGED <<messages, iteration>>
           ELSE LET r == RunBatch(last_message.tool_calls, 1, messages, response)
                IN  /\ messages' = r.messages
                    /\ response' = r.response
                    /\ iteration' = IF r.exit = "complete" THEN iteration + 1 ELSE iteration
                    /\ pc' = RouteAfterToolCall(r.messages, r.response)
                    /\ step' = [node |-> "tool_call", kind |-> r.exit, entry_iteration |-> iteration,
                                entry_messages |-> messages, entry_summary |-> summary,
                                route |-> pc', attempts |-> 0]
    /\ UNCHANGED <<limiter_vars, routes_vars, session, summary, is_financial, max_iterations, user_message_count, finish_reason,
                   llm_calls, summary_calls, llm_input, cot_log>>

\* ------------------------------------------------------ summarizer_node
\* summary after the try block for completion c: an exception of call_llm, or
\* len(None) when message.content is None, ends in `summary or ""`
SummaryAfter(old, c) ==
    IF ~c.ok THEN Or(old, Empty)
    ELSE IF c.content = None THEN Or(None, Empty)
    ELSE c.content

\* the list the summarizer sends: a new list, [prompt] + state.messages[1:]
SummaryInput(msgs, sum) ==
    <<Msg("system", <<"Provide a concise summary ... Previous summary ">>
                       \o sum \o <<". <previous-summary-end>">>)>>
        \o Tail(msgs)

\* variant that builds the summarizer's input in state.messages itself
MessagesAfterSummaryInPlace(msgs, sum) == SummaryInput(msgs, sum)

\* state.messages once the summarizer's input is built: the concatenation
\* makes a new list and the transcript stays as it was
MessagesAfterSummary(msgs, sum) == msgs

SummarizerNode ==
    /\ pc = "summarizer"
    /\ IF Len(messages) > 0
       THEN \E c \in SummaryCompletions :
              /\ llm_input' = SummaryInput(messages, summary)
              /\ messages' = MessagesAfterSummary(messages, summary)
              /\ summary_calls' = summary_calls + 1
              /\ summary' = SummaryAfter(summary, c)
              /\ step' = [node |-> "summarizer", kind |-> IF c.ok /\ c.content # None THEN "updated" ELSE "fail",
                          entry_iteration |-> iteration, entry_messages |-> messages,
                          entry_summary |-> summary, route |-> "output", attempts |-> 0]
       ELSE /\ step' = [node |-> "summarizer", kind |-> "skipped",
                        entry_iteration |-> iteration, entry_messages |-> messages,
                        entry_summary |-> summary, route |-> "output", attempts |-> 0]
            /\ UNCHANGED <<messages, summary, summary_calls, llm_input>>
    /\ pc' = "output"
    /\ UNCHANGED <<limiter_vars, routes_vars, session, response, is_financial, iteration, max_iterations,
                   user_message_count, finish_reason, llm_calls, tool_passes, cot_log, cap_hit>>

\* output_node, then the edge to END
OutputNode ==
    /\ pc = "output"
    /\ pc' = "done"
    /\ step' = [node |-> "output", kind |-> "none", entry_iteration |-> iteration,
                entry_messages |-> messages, entry_summary |-> summary,
                route |-> "done", attempts |-> 0]
    /\ UNCHANGED <<limiter_vars, routes_vars, session, messages, summary, response, is_financial, iteration, max_iterations,
                   user_message_count, finish_reason, llm_calls, summary_calls, tool_passes,
                   llm_input, cot_log, cap_hit>>

Next == InputNode \/ CotNode \/ ToolCallNode \/ SummarizerNode \/ OutputNode

Spec == Init /\ [][Next]_vars

\* the driver runs the next node as long as there is one
FairSpec == Spec /\ WF_vars(Next)

\* ================================================== lang_graph.py workflow
\* The earlier workflow of the repository, over the same ChatState fields
\* (it has no finish_reason, which stays "None" here).  The model answers in
\* JSON text; a JSON object is written as the pieces
\*   "{", is_financial, function_call name, function_call arguments, other keys
\* followed by the pieces of its "response" value (none: the key is absent).
LgMaxPrior == 10       \* user messages already stored in the session
LgMaxRejects == 1      \* function calls of a turn that tool_call_node rejects

LgMaxIterations == 3   \* ChatState.max_iterations, never set by run_chat_graph
LG_FUNCTION_NAMES == {"get_financial_news", "get_quarterly_results"}

RejectionMsg ==
    <<"Sorry, I can only assist with financial market questions. Please ask about stocks, earnings, or financial news.">>
ParseFallbackMsg == <<"Sorry, I encountered an error processing your query.">>
ReasoningPrompt == <<"Analyze the following query: ">> \o user_query \o <<" Step 1: ... structured JSON format">>

\* json.dumps of a dict with these entries
JsonObject(isf, fname, fargs, other, resp) == <<"{", isf, fname, fargs, other>> \o resp

\* json.loads of a text: ok = FALSE when it raises JSONDecodeError
LgJsonLoads(text) ==
    IF Len(text) >= 5 /\ text[1] = "{"
    THEN [ok |-> TRUE, is_financial |-> text[2], fname |-> text[3], fargs |-> text[4],
          other |-> text[5], response |-> SubSeq(text, 6, Len(text))]
    ELSE [ok |-> FALSE, is_financial |-> "absent", fname |-> "null", fargs |-> "",
          other |-> "", response |-> Empty]

\* json.dumps(reasoning_result)
LgJsonDumps(rr) == JsonObject(rr.is_financial, rr.fname, rr.fargs, rr.other, rr.response)

\* the empty dict, and the dict built after a JSONDecodeError
EmptyResult == [ok |-> TRUE, is_financial |-> "absent", fname |-> "null", fargs |-> "",
                other |-> "", response |-> Empty]
FallbackResult == [ok |-> TRUE, is_financial |-> "false", fname |-> "null", fargs |-> "",
                   other |-> "reasoning", response |-> ParseFallbackMsg]

\* keyword arguments of a function_call object
LgArgKeys(fargs) ==
    CASE fargs = "company_name" -> {"company_name"}
      [] fargs = "company_name,quarter" -> {"company_name", "quarter"}
      [] OTHER -> {}

\* json.dumps(result) of a function that returned
LgResultJson(name) == JsonObject("absent", "null", "", name, Empty)

\* the rows of a session with h user messages, each answered or none answered
RECURSIVE LgStoredMessages(_, _)
LgStoredMessages(h, answered) ==
    IF h = 0 THEN <<>>
    ELSE LgStoredMessages(h - 1, answered)
           \o <<Row(RoleEnum.human, <<"earlier question">>)>>
           \o (IF answered THEN <<Row(RoleEnum.ai, <<"earlier answer">>)>> ELSE <<>>)

\* what litellm.acompletion may give cot_node: an exception, no content,
\* content that is not JSON, or one of the JSON objects
LgJsonContents(rejects) ==
    { JsonObject("false", "null", "", "reasoning", r) : r \in {Empty, <<"model rejection">>} }
    \cup { JsonObject("true", "null", "", "reasoning", r) : r \in {Empty, <<"model answer">>} }
    \cup { JsonObject("true", "get_financial_news", "company_name", "reasoning", Empty) }
    \cup (IF rejects
          THEN { JsonObject("true", "get_quarterly_results", "company_name", "reasoning", Empty),
                 JsonObject("true", "get_stock_price", "company_name", "reasoning", Empty) }
          ELSE {})
LgCompletions(rejects) ==
    { [ok |-> FALSE, content |-> None] }
    \cup { [ok |-> TRUE, content |-> c] : c \in {None, <<"not json">>} \cup LgJsonContents(rejects) }

\* function calls rejected by tool_call_node so far in the turn
LgRejects == tool_passes - CountRole(messages, "function")

\* run_chat_graph of lang_graph.py: the ChatState handed to workflow.ainvoke
LgInit ==
    /\ pc = "input"
    /\ \E h \in 0..LgMaxPrior, answered \in BOOLEAN, s \in StoredSummaries :
          session = [messages |-> LgStoredMessages(h, answered), summary |-> s]
    /\ messages = WindowMessages(session.messages)
    /\ user_message_count = CountRole(session.messages, RoleEnum.human) + 1
    /\ summary = Or(session.summary, Empty)
    /\ response = None
    /\ is_financial = "None"
    /\ iteration = 0
    /\ max_iterations = LgMaxIterations
    /\ finish_reason = "None"
    /\ llm_calls = 0
    /\ summary_calls = 0
    /\ tool_passes = 0
    /\ llm_input = <<>>
    /\ cot_log = <<>>
    /\ cap_hit = FALSE
    /\ step = NoStep
    /\ LimiterAtImport
    /\ RoutesAtImport

\* input_node
LgInputNode ==
    /\ pc = "input"
    /\ LET msgs == Insert(messages, 0, Msg("system", SYSTEM_PROMPT))
       IN  /\ messages' = msgs
           /\ user_message_count' = CountRole(msgs, "human")
    /\ pc' = "cot"
    /\ step' = [NoStep EXCEPT !.node = "input", !.entry_messages = messages,
                              !.entry_summary = summary, !.route = "cot"]
    /\ UNCHANGED <<limiter_vars, routes_vars, session, summary, response, is_financial, iteration, max_iterations,
                   finish_reason, llm_calls, summary_calls, tool_passes, llm_input,
                   cot_log, cap_hit>>

\* the list passed to litellm.acompletion by cot_node: always a copy
LgSentMessages(msgs, sum) ==
    LET base == msgs \o <<Msg("user", user_query)>>
        withsum == IF Truthy(sum) THEN Insert(base, 1, SummaryEntry(sum)) ELSE base
    IN  Append(withsum, Msg("system", ReasoningPrompt))

\* the dict cot_node works on for a completion that arrived
ReasoningResult(content) ==
    IF ~Truthy(content) THEN EmptyResult
    ELSE IF LgJsonLoads(content).ok THEN LgJsonLoads(content)
    ELSE FallbackResult

\* the fields cot_node leaves behind for completion c, the guard having passed
LgCotResult(c) ==
    IF ~c.ok
    THEN [kind |-> "fail", messages |-> messages,
          response |-> <<"Error processing query: ">> \o LLMErrorText,
          is_financial |-> "False", iteration |-> iteration]
    ELSE LET rr == ReasoningResult(c.content)
             isf == IF rr.is_financial = "true" THEN "True" ELSE "False"
             said == Append(messages, Msg("assistant", Or(c.content, LgJsonDumps(rr))))
         IN  IF isf = "False"
             THEN [kind |-> "not_financial", messages |-> said,
                   response |-> IF rr.response = Empty THEN RejectionMsg ELSE rr.response,
                   is_financial |-> isf, iteration |-> iteration]
             ELSE IF rr.fname # "null"
             THEN [kind |-> "function_call",
                   messages |-> Append(said, Msg("assistant", LgJsonDumps(rr))),
                   response |-> response, is_financial |-> isf, iteration |-> iteration]
             ELSE IF Truthy(rr.response)
             THEN [kind |-> "answer", messages |-> said, response |-> rr.response,
                   is_financial |-> isf, iteration |-> iteration]
             ELSE [kind |-> "incomplete", messages |-> said, response |-> response,
                   is_financial |-> isf, iteration |-> iteration + 1]

\* the conditional edge after cot; json.loads of a last message that is not
\* JSON raises out of the workflow
LgRouteAfterCot(msgs, isf, resp, it, mx) ==
    IF isf # "True" THEN "invalid_query"
    ELSE LET last == LgJsonLoads(msgs[Len(msgs)].content)
         IN  IF ~last.ok THEN "raised"
             ELSE IF last.fname # "null" THEN "tool_call"
             ELSE IF ~Truthy(resp) /\ it < mx THEN "cot"
             ELSE "summarizer"

LgCotNode ==
    /\ pc = "cot"
    /\ IF iteration >= max_iterations
       THEN /\ response' = MaxReasoningMsg
            /\ pc' = LgRouteAfterCot(messages, is_financial, MaxReasoningMsg, iteration, max_iterations)
            /\ step' = [node |-> "cot", kind |-> "exhausted", entry_iteration |-> iteration,
                        entry_messages |-> messages, entry_summary |-> summary,
                        route |-> pc', attempts |-> 1]
            /\ UNCHANGED <<messages, is_financial, iteration, llm_calls, llm_input, cot_log>>
       ELSE \E c \in LgCompletions(LgRejects < LgMaxRejects) :
              LET r == LgCotResult(c)
              IN  /\ llm_input' = LgSentMessages(messages, summary)
                  /\ llm_calls' = llm_calls + 1
                  /\ cot_log' = Append(cot_log, [kind |-> r.kind, invalid |-> FALSE,
                                                 content |-> c.content])
                  /\ messages' = r.messages
                  /\ response' = r.response
                  /\ is_financial' = r.is_financial
                  /\ iteration' = r.iteration
                  /\ pc' = LgRouteAfterCot(r.messages, r.is_financial, r.response,
                                           r.iteration, max_iterations)
                  /\ step' = [node |-> "cot", kind |-> r.kind, entry_iteration |-> iteration,
                              entry_messages |-> messages, entry_summary |-> summary,
                              route |-> pc', attempts |-> 1]
    /\ cap_hit' = (cap_hit \/ iteration >= max_iterations)
    /\ UNCHANGED <<limiter_vars, routes_vars, session, summary, max_iterations, user_message_count, finish_reason,
                   summary_calls, tool_passes>>

\* what tool_call_node does with the last message, the guard having passed
LgToolResult(last_message) ==
    LET rr == IF Truthy(last_message.content) THEN LgJsonLoads(last_message.content)
              ELSE EmptyResult
    IN  IF ~rr.ok
        THEN [kind |-> "bad_json", messages |-> messages, iteration |-> iteration,
              response |-> <<"Invalid reasoning output from previous step.">>]
        ELSE IF rr.fname = "null"
        THEN [kind |-> "no_function_call", messages |-> messages, iteration |-> iteration,
              response |-> <<"No function call specified.">>]
        ELSE IF rr.fname \notin LG_FUNCTION_NAMES
        THEN [kind |-> "unknown", messages |-> messages, iteration |-> iteration,
              response |-> <<"Invalid function call detected.">>]
        ELSE IF CallRaises(rr.fname, LgArgKeys(rr.fargs))
        THEN [kind |-> "raised", messages |-> messages, iteration |-> iteration,
              response |-> <<"Error executing function ", rr.fname, ": ">> \o TypeErrorText]
        ELSE [kind |-> "complete",
              messages |-> Append(messages, Msg("function", LgResultJson(rr.fname))),
              iteration |-> iteration + 1, response |-> response]

\* tool_call_node, then the edge back to cot
LgToolCallNode ==
    /\ pc = "tool_call"
    /\ tool_passes' = tool_passes + 1
    /\ cap_hit' = (cap_hit \/ iteration >= max_iterations)
    /\ LET r == IF iteration >= max_iterations
                THEN [kind |-> "exhausted", messages |-> messages, iteration |-> iteration,
                      response |-> MaxFunctionCallsMsg]
                ELSE LgToolResult(messages[Len(messages)])
       IN  /\ messages' = r.messages
           /\ iteration' = r.iteration
           /\ response' = r.response
           /\ step' = [node |-> "tool_call", kind |-> r.kind, entry_iteration |-> iteration,
                       entry_messages |-> messages, entry_summary |-> summary,
                       route |-> "cot", attempts |-> 0]
    /\ pc' = "cot"
    /\ UNCHANGED <<limiter_vars, routes_vars, session, summary, is_financial, max_iterations, user_message_count,
                   finish_reason, llm_calls, summary_calls, llm_input, cot_log>>

\* invalid_query_node, then the edge to output
LgInvalidQueryNode ==
    /\ pc = "invalid_query"
    /\ response' = Or(response, RejectionMsg)
    /\ messages' = Append(messages, Msg("assistant", response'))
    /\ pc' = "output"
    /\ step' = [node |-> "invalid_query", kind |-> "none", entry_iteration |-> iteration,
                entry_messages |-> messages, entry_summary |-> summary,
                route |-> "output", attempts |-> 0]
    /\ UNCHANGED <<limiter_vars, routes_vars, session, summary, is_financial, iteration, max_iterations,
                   user_message_count, finish_reason, llm_calls, summary_calls, tool_passes,
                   llm_input, cot_log, cap_hit>>

\* summarizer_node, then the edge to output
LgSummaryCadence == 10
LgSummaryDue(count) == count % LgSummaryCadence = 0 /\ count > 0

LgSummarizerNode ==
    /\ pc = "summarizer"
    /\ IF LgSummaryDue(user_message_count)
       THEN \E c \in SummaryCompletions :
              /\ llm_input' = <<Msg("system", <<"Summarize the conversation concisely, focusing on financial topics.">>)>>
                                \o messages
              /\ summary_calls' = summary_calls + 1
              /\ summary' = IF c.ok THEN c.content ELSE Or(summary, Empty)
              /\ step' = [node |-> "summarizer", kind |-> IF c.ok THEN "updated" ELSE "fail",
                          entry_iteration |-> iteration, entry_messages |-> messages,
                          entry_summary |-> summary, route |-> "output", attempts |-> 0]
       ELSE /\ step' = [node |-> "summarizer", kind |-> "skipped",
                        entry_iteration |-> iteration, entry_messages |-> messages,
                        entry_summary |-> summary, route |-> "output", attempts |-> 0]
            /\ UNCHANGED <<messages, summary, summary_calls, llm_input>>
    /\ pc' = "output"
    /\ UNCHANGED <<limiter_vars, routes_vars, session, response, is_financial, iteration, max_iterations,
                   user_message_count, finish_reason, llm_calls, tool_passes, cot_log, cap_hit>>

\* output_node, then the edge to END
LgOutputNode ==
    /\ pc = "output"
    /\ pc' = "done"
    /\ step' = [node |-> "output", kind |-> "none", entry_iteration |-> iteration,
                entry_messages |-> messages, entry_summary |-> summary,
                route |-> "done", attempts |-> 0]
    /\ UNCHANGED <<limiter_vars, routes_vars, session, messages, summary, response, is_financial, iteration, max_iterations,
                   user_message_count, finish_reason, llm_calls, summary_calls, tool_passes,
                   llm_input, cot_log, cap_hit>>

\* update_conversation_state, called with the final state of the turn
LgUpdateConversationState ==
    /\ pc = "done"
    /\ session' = [messages |-> session.messages
                                  \o <<Row(RoleEnum.human, user_query)>>
                                  \o (IF Truthy(response) THEN <<Row(RoleEnum.ai, response)>> ELSE <<>>),
                   summary |-> Or(summary, session.summary)]
    /\ pc' = "persisted"
    /\ step' = [node |-> "update_conversation_state", kind |-> "none",
                entry_iteration |-> iteration, entry_messages |-> messages,
                entry_summary |-> summary, route |-> "persisted", attempts |-> 0]
    /\ UNCHANGED <<limiter_vars, routes_vars, messages, summary, response, is_financial, iteration, max_iterations,
                   user_message_count, finish_reason, llm_calls, summary_calls, tool_passes,
                   llm_input, cot_log, cap_hit>>

LgNext ==
    \/ LgInputNode \/ LgCotNode \/ LgToolCallNode \/ LgInvalidQueryNode
    \/ LgSummarizerNode \/ LgOutputNode \/ LgUpdateConversationState

LgSpec == LgInit /\ [][LgNext]_vars

\* ========================================================= rate_limiter.py
MaxChecks == 3         \* check_rate_limit calls of a run
MaxTime == 90          \* last value of the clock, in seconds
ClockStep == 30        \* seconds between two readings of the clock

\* variant of the table with a free-tier token limit below rpm * 10
TierLimitsLowTpm(tier) ==
    CASE tier = "free-tier" -> [rpm |-> 5, tpm |-> 40]
      [] tier = "paid-tier" -> [rpm |-> 50, tpm |-> 1000]
      [] OTHER -> [rpm |-> 5, tpm |-> 40]

\* tier_limits.get(tier, tier_limits["free-tier"])
TierLimits(tier) ==
    CASE tier = "free-tier" -> [rpm |-> 5, tpm |-> 100]
      [] tier = "paid-tier" -> [rpm |-> 50, tpm |-> 1000]
      [] OTHER -> [rpm |-> 5, tpm |-> 100]

WindowSeconds == 60
TokenCount == 10

\* variants of the cleanup test: one that keeps no record, and one that
\* still counts a record that is exactly 60 seconds old
InWindowNever(now, ts) == FALSE
InWindowInclusive(now, ts) == now - ts <= WindowSeconds

\* now - ts < timedelta(seconds=60)
InWindow(now, ts) == now - ts < WindowSeconds

\* variant of the request test that lets one more request through
RateExceededStrict(n, rpm) == n > rpm

\* recent_requests >= rpm_limit
RateExceeded(n, rpm) == n >= rpm

\* sum(tokens for _, tokens in request_counts[user_id])
RECURSIVE SumTokens(_)
SumTokens(recs) == IF recs = <<>> THEN 0 ELSE Head(recs).tokens + SumTokens(Tail(recs))

\* variant in which the body of check_rate_limit awaits, so that the event
\* loop may run another coroutine between two of its statements
AwaitInsideCheckYes == TRUE

\* check_rate_limit contains no await: once a coroutine has entered it, the
\* event loop runs no other coroutine until it returns or raises
AwaitInsideCheck == FALSE
MayRun(t) == AwaitInsideCheck \/ \A o \in Tasks \ {t} : coroutines[o].pc = "idle"

\* n records made at time ts
RECURSIVE RecordsAt(_, _)
RecordsAt(n, ts) ==
    IF n = 0 THEN <<>> ELSE Append(RecordsAt(n - 1, ts), [ts |-> ts, tokens |-> TokenCount])
RECURSIVE AcceptedAt(_, _, _)
AcceptedAt(n, u, ts) ==
    IF n = 0 THEN <<>>
    ELSE Append(AcceptedAt(n - 1, u, ts), [user |-> u, tier |-> TierOf(u), ts |-> ts])

\* the workflow fields while no turn is running
WorkflowNotStarted ==
    /\ pc = "idle"
    /\ messages = <<>>
    /\ summary = Empty
    /\ response = None
    /\ is_financial = "None"
    /\ iteration = 0
    /\ max_iterations = 0
    /\ user_message_count = 0
    /\ finish_reason = "None"
    /\ llm_calls = 0
    /\ summary_calls = 0
    /\ tool_passes = 0
    /\ llm_input = <<>>
    /\ cot_log = <<>>
    /\ cap_hit = FALSE
    /\ step = NoStep

\* the limiter at time 0: nothing recorded yet, or every user one request
\* short of its tier's limit
RlInit ==
    /\ WorkflowNotStarted
    /\ session = [messages |-> <<>>, summary |-> Empty]
    /\ RoutesAtImport
    /\ clock = 0
    /\ coroutines = [t \in Tasks |-> NoCall]
    /\ checks = 0
    /\ \E busy \in BOOLEAN :
          /\ request_counts =
                [u \in Users |-> IF busy THEN RecordsAt(TierLimits(TierOf(u)).rpm - 1, 0) ELSE <<>>]
          /\ accepted =
                IF busy
                THEN AcceptedAt(TierLimits(TierOf("user123")).rpm - 1, "user123", 0)
                       \o AcceptedAt(TierLimits(TierOf("user456")).rpm - 1, "user456", 0)
                       \o AcceptedAt(TierLimits(TierOf("guest")).rpm - 1, "guest", 0)
                ELSE <<>>

\* check_rate_limit, up to the cleanup of the user's list
RlEnter(t) ==
    /\ coroutines[t].pc = "idle"
    /\ checks < MaxChecks
    /\ MayRun(t)
    /\ \E u \in Users :
          /\ request_counts' =
                [request_counts EXCEPT ![u] = SelectSeq(@, LAMBDA r : InWindow(clock, r.ts))]
          /\ coroutines' = [coroutines EXCEPT ![t] =
                [pc |-> "cleaned", user_id |-> u, tier |-> TierOf(u), now |-> clock,
                 recent_requests |-> 0, recent_tokens |-> 0, outcome |-> "none"]]
    /\ checks' = checks + 1
    /\ UNCHANGED <<workflow_vars, routes_vars, clock, accepted>>

\* check_rate_limit: the counts and the two tests
RlCount(t) ==
    /\ coroutines[t].pc = "cleaned"
    /\ MayRun(t)
    /\ LET c == coroutines[t]
           n == Len(request_counts[c.user_id])
           tok == SumTokens(request_counts[c.user_id])
           limits == TierLimits(c.tier)
           seen == [c EXCEPT !.recent_requests = n, !.recent_tokens = tok]
       IN  coroutines' = [coroutines EXCEPT ![t] =
               IF RateExceeded(n, limits.rpm)
               THEN [seen EXCEPT !.pc = "idle", !.outcome = "rate"]
               ELSE IF tok >= limits.tpm
               THEN [seen EXCEPT !.pc = "idle", !.outcome = "token"]
               ELSE [seen EXCEPT !.pc = "counted"]]
    /\ UNCHANGED <<workflow_vars, routes_vars, request_counts, clock, accepted, checks>>

\* check_rate_limit: the new record, and the normal return
RlRecord(t) ==
    /\ coroutines[t].pc = "counted"
    /\ MayRun(t)
    /\ LET c == coroutines[t]
       IN  /\ request_counts' = [request_counts EXCEPT ![c.user_id] =
                                    Append(@, [ts |-> c.now, tokens |-> TokenCount])]
           /\ accepted' = Append(accepted, [user |-> c.user_id, tier |-> c.tier, ts |-> c.now])
           /\ coroutines' = [coroutines EXCEPT ![t] = [c EXCEPT !.pc = "idle", !.outcome = "accepted"]]
    /\ UNCHANGED <<workflow_vars, routes_vars, clock, checks>>

\* time passes between two calls
Tick ==
    /\ \A t \in Tasks : coroutines[t].pc = "idle"
    /\ clock + ClockStep <= MaxTime
    /\ clock' = clock + ClockStep
    /\ UNCHANGED <<workflow_vars, routes_vars, request_counts, coroutines, accepted, checks>>

RlNext == (\E t \in Tasks : RlEnter(t) \/ RlCount(t) \/ RlRecord(t)) \/ Tick

RlSpec == RlInit /\ [][RlNext]_vars

\* ================================================= a turn and the limiter
\* The caller of run_chat_graph with the limiter's module state beside it:
\* the user of the turn has recorded nothing yet, or has a full window.
TurnUser == "user123"

ServeInit ==
    /\ WorkflowNotStarted
    /\ \E n \in {0, MaxHistory}, s \in StoredSummaries :
          session = [messages |-> StoredMessages(n), summary |-> s]
    /\ RoutesAtImport
    /\ clock = 0
    /\ coroutines = [t \in Tasks |-> NoCall]
    /\ checks = 0
    /\ \E n \in {0, TierLimits(TierOf(TurnUser)).rpm} :
          /\ request_counts = [u \in Users |-> IF u = TurnUser THEN RecordsAt(n, 0) ELSE <<>>]
          /\ accepted = AcceptedAt(n, TurnUser, 0)

\* run_chat_graph of reasoning.py, up to workflow.ainvoke(state)
RunChatGraph ==
    /\ pc = "idle"
    /\ pc' = "input"
    /\ messages' = WindowMessages(session.messages)
    /\ user_message_count' = CountRole(session.messages, RoleEnum.human) + 1
    /\ summary' = Or(session.summary, Empty)
    /\ max_iterations' \in 0..MaxIter
    /\ UNCHANGED <<limiter_vars, routes_vars, session, response, is_financial, iteration,
                   finish_reason, llm_calls, summary_calls, tool_passes, llm_input, cot_log,
                   cap_hit, step>>

\* variant that stores the state's summary whatever it is
StoredSummaryOverwrites(state_summary, old) == state_summary

\* session.summary = state['summary'] or session.summary
StoredSummary(state_summary, old) == Or(state_summary, old)

\* update_conversation_state of reasoning.py, called with the final state
UpdateConversationState ==
    /\ pc = "done"
    /\ session' = [messages |-> session.messages
                                  \o <<Row(RoleEnum.human, user_query)>>
                                  \o (IF Truthy(response) THEN <<Row(RoleEnum.ai, response)>> ELSE <<>>),
                   summary |-> StoredSummary(summary, session.summary)]
    /\ pc' = "persisted"
    /\ step' = [node |-> "update_conversation_state", kind |-> "none",
                entry_iteration |-> iteration, entry_messages |-> messages,
                entry_summary |-> summary, route |-> "persisted", attempts |-> 0]
    /\ UNCHANGED <<limiter_vars, routes_vars, messages, summary, response, is_financial, iteration,
                   max_iterations, user_message_count, finish_reason, llm_calls, summary_calls,
                   tool_passes, llm_input, cot_log, cap_hit>>

ServeNext ==
    \/ RunChatGraph
    \/ InputNode \/ CotNode \/ ToolCallNode \/ SummarizerNode \/ OutputNode
    \/ UpdateConversationState

ServeSpec == ServeInit /\ [][ServeNext]_vars

\* ================================================================ routes.py
MaxRequests == 4       \* requests served in a run

\* the authenticated users that send requests
Callers == {"user123", "user456"}
user_message == <<"What is the price of AAPL?">>

\* session = await db.get(Conversation, session_id), then the test
\* `not session or session.user_id != user.id` negated
SessionFoundAnyOwner(sid, user) == conversations[sid] # ""
SessionFound(sid, user) == conversations[sid] # "" /\ conversations[sid] = user

\* a Conversation can still be created: its id is the first unused one
CanCreate == \E i \in SessionIds : conversations[i] = ""
NewSessionId == CHOOSE i \in SessionIds : conversations[i] = "" /\ \A j \in 1..(i - 1) : conversations[j] # ""

\* graph(message, history): the name is imported from lang_graph, which does
\* not define it; what a call returns is any of these results
Graph(msg, history) ==
    { [output |-> <<"AAPL trades at 150">>,
       history |-> history \o <<Row(RoleEnum.user, msg), Row(RoleEnum.ai, <<"AAPL trades at 150">>)>>],
      [output |-> Empty, history |-> history] }

\* the answer to a request: the session id of its path (0 when it has
\* none) and the id of the Conversation it created (0 when it created none)
Reply(endpoint, status, user, sid, created) ==
    [endpoint |-> endpoint, status |-> status, user |-> user, session_id |-> sid,
     created |-> created]

\* one more request is served; the handlers touch nothing else
Served ==
    /\ requests < MaxRequests
    /\ requests' = requests + 1
    /\ UNCHANGED <<limiter_vars, workflow_vars>>

RoutesInit ==
    /\ WorkflowNotStarted
    /\ session = [messages |-> <<>>, summary |-> Empty]
    /\ LimiterAtImport
    /\ RoutesAtImport

\* POST /start_session
StartSession(user) ==
    /\ Served
    /\ CanCreate
    /\ conversations' = [conversations EXCEPT ![NewSessionId] = user]
    /\ langgraph_memory' = [langgraph_memory EXCEPT ![NewSessionId] =
                               [present |-> TRUE, history |-> <<>>]]
    /\ reply' = Reply("start_session", 200, user, 0, NewSessionId)
    /\ UNCHANGED rows

\* POST /message/{session_id}
Message(user, sid) ==
    /\ Served
    /\ IF ~SessionFound(sid, user)
       THEN /\ reply' = Reply("message", 404, user, sid, 0)
            /\ UNCHANGED <<conversations, rows, langgraph_memory>>
       ELSE \E result \in Graph(user_message, langgraph_memory[sid].history) :
               /\ rows' = [rows EXCEPT ![sid] = @ \o <<Row(RoleEnum.user, user_message),
                                                        Row(RoleEnum.ai, result.output)>>]
               /\ langgraph_memory' = [langgraph_memory EXCEPT ![sid] =
                                          [present |-> TRUE, history |-> result.history]]
               /\ reply' = Reply("message", 200, user, sid, 0)
               /\ UNCHANGED conversations

\* POST /restart_session/{session_id}
RestartSession(user, sid) ==
    /\ Served
    /\ IF ~SessionFound(sid, user)
       THEN /\ reply' = Reply("restart_session", 404, user, sid, 0)
            /\ UNCHANGED <<conversations, rows, langgraph_memory>>
       ELSE /\ CanCreate
            /\ conversations' = [conversations EXCEPT ![NewSessionId] = user]
            /\ langgraph_memory' = [langgraph_memory EXCEPT
                                       ![sid] = [present |-> FALSE, history |-> <<>>],
                                       ![NewSessionId] = [present |-> TRUE, history |-> <<>>]]
            /\ reply' = Reply("restart_session", 200, user, sid, NewSessionId)
            /\ UNCHANGED rows

\* GET /sessions
ListSessions(user) ==
    /\ Served
    /\ reply' = Reply("sessions", 200, user, 0, 0)
    /\ UNCHANGED <<conversations, rows, langgraph_memory>>

\* GET /sessions/{session_id}
GetSession(user, sid) ==
    /\ Served
    /\ reply' = Reply("get_session", IF SessionFound(sid, user) THEN 200 ELSE 404, user, sid, 0)
    /\ UNCHANGED <<conversations, rows, langgraph_memory>>

\* POST /sessions/{session_id}/resume
ResumeSession(user, sid) ==
    /\ Served
    /\ IF ~SessionFound(sid, user)
       THEN /\ reply' = Reply("resume_session", 404, user, sid, 0)
            /\ UNCHANGED <<conversations, rows, langgraph_memory>>
       ELSE /\ langgraph_memory' = [langgraph_memory EXCEPT ![sid] =
                                       [present |-> TRUE, history |-> rows[sid]]]
            /\ reply' = Reply("resume_session", 200, user, sid, 0)
            /\ UNCHANGED <<conversations, rows>>

RoutesNext ==
    \/ \E user \in Callers : StartSession(user)
    \/ \E user \in Callers, sid \in SessionIds : Message(user, sid)
    \/ \E user \in Callers, sid \in SessionIds : RestartSession(user, sid)
    \/ \E user \in Callers : ListSessions(user)
    \/ \E user \in Callers, sid \in SessionIds : GetSession(user, sid)
    \/ \E user \in Callers, sid \in SessionIds : ResumeSession(user, sid)

RoutesSpec == RoutesInit /\ [][RoutesNext]_vars

\* =============================================================== claims
SummaryCadence == 2
ExhaustionMsgs == {MaxReasoningMsg, MaxFunctionCallsMsg}
LastPass == cot_log[Len(cot_log)]
StopSeen == \E i \in 1..Len(cot_log) : cot_log[i].kind = "stop"

\* C1: in every reachable state of a turn, and so at engine exit,
\* iteration <= max_iterations
IterationWithinCap == iteration <= max_iterations

\* a turn that left the engine with the counter at a positive cap
IterationAtCapAtExit == pc = "done" /\ max_iterations > 0 /\ iteration = max_iterations

\* C2: every turn eventually reaches the output step and ends, and at no
\* point has it made more than max_iterations reasoning LLM calls
TurnTerminatesWithinCallBudget ==
    /\ [](llm_calls <= max_iterations)
    /\ <>(pc = "done")

\* a finished turn that used its whole budget of reasoning calls
CallBudgetUsedUp == pc = "done" /\ max_iterations = MaxIter /\ llm_calls = max_iterations

\* C3 (as claimed): if the first reasoning pass returned a tool-call list
\* containing 'invalid', then at engine exit is_financial is false, response
\* is the invalid tool's rejection message and tool_call_node ran exactly once
InvalidFirstPassRejects ==
    (pc = "done" /\ Len(cot_log) >= 1 /\ cot_log[1].invalid)
        => (is_financial = "False" /\ response = InvalidError /\ tool_passes = 1)

\* C4 (as claimed): once cot or tool_call was entered with
\* iteration >= max_iterations, response is set and no further LLM call,
\* reasoning or summarization, is made in the turn
NoLLMCallAfterCap ==
    [][cap_hit => (Truthy(response) /\ llm_calls' = llm_calls /\ summary_calls' = summary_calls)]_vars

\* C5 (as claimed): a turn that ends because the counter reached
\* max_iterations (a step met the cap at entry, or the last reasoning pass was
\* incomplete and the router went to output) exits with an exhaustion message
ExhaustedTurnHasFixedResponse ==
    (pc = "done" /\ (cap_hit \/ (Len(cot_log) > 0 /\ LastPass.kind = "incomplete")))
        => response \in ExhaustionMsgs

\* C6 (as claimed): the route taken after cot or tool_call is terminal
\* (summarizer or output) exactly when response is non-empty
TerminalRouteIffResponse ==
    step.node \in {"cot", "tool_call"}
        => (step.route \in {"summarizer", "output"} <=> Truthy(response))

\* C7: messages never gets shorter, and from a reasoning pass that returned
\* finish_reason 'stop' without tool calls on, response is non-empty (the
\* content, or the clarification default) and finish_reason is 'stop'
StopPassSetsResponse ==
    /\ [][Len(messages') >= Len(messages)]_vars
    /\ [](StopSeen => /\ Truthy(response)
                      /\ response = Or(LastPass.content, ClarificationMsg)
                      /\ finish_reason = "stop")

\* a finished turn whose stop completion had no content
StopWithEmptyContentAtExit ==
    pc = "done" /\ StopSeen /\ ~Truthy(LastPass.content) /\ response = ClarificationMsg

\* C8 (as claimed): a reasoning pass gives up with the error response only
\* after StopAfterAttempt attempts of the LLM call
FailureRetriedBeforeGivingUp ==
    (step.node = "cot" /\ Len(cot_log) > 0 /\ LastPass.kind = "fail")
        => step.attempts = StopAfterAttempt

\* C9 (as claimed): a reasoning pass whose LLM call failed leaves messages
\* as it was at step entry
FailedPassLeavesMessages ==
    (step.node = "cot" /\ Len(cot_log) > 0 /\ LastPass.kind = "fail")
        => messages = step.entry_messages

\* C10 (as claimed): the summarizer's LLM call is made in a turn exactly when
\* user_message_count is a positive multiple of the cadence, and the
\* summarizer leaves messages no shorter than it found it
SummaryOnlyAtCadence ==
    /\ pc = "done"
        => (summary_calls > 0 <=> (user_message_count > 0 /\ user_message_count % SummaryCadence = 0))
    /\ step.node = "summarizer" => Len(messages) >= Len(step.entry_messages)


\* C12 (as claimed): when the summarization call fails or returns no text
\* content, summary keeps the value it had on entry to summarizer_node and
\* the turn proceeds to output
SummarizerFailureKeepsSummary ==
    (step.node = "summarizer" /\ step.kind = "fail")
        => (summary = step.entry_summary /\ pc = "output")

\* the state right after the first reasoning call of a turn
FirstCallMade == step.node = "cot" /\ Len(cot_log) = 1

\* C13: if the turn starts with a non-empty stored summary, the list passed to
\* the first reasoning call carries that summary as a system-role entry right
\* after the leading system prompt; with an empty summary no such entry is sent
SummaryFedBack ==
    FirstCallMade =>
        /\ llm_input[1] = Msg("system", SYSTEM_PROMPT)
        /\ IF Truthy(session.summary)
           THEN /\ llm_input[2].role = "system"
                /\ Tail(llm_input[2].content) = session.summary
                /\ \A i \in 3..Len(llm_input) : llm_input[i].role # "system"
           ELSE \A i \in 2..Len(llm_input) : llm_input[i].role # "system"

\* the first call of a turn that started with a stored summary
FirstCallWithStoredSummary == FirstCallMade /\ Truthy(session.summary)

\* C14: once input_node has run, messages[0] is the system-prompt entry in
\* every state of the turn
SystemPromptFirst ==
    pc # "input" => (Len(messages) >= 1 /\ messages[1] = Msg("system", SYSTEM_PROMPT))

\* a finished turn in which a later pass spliced the summary entry in
SummarySplicedAtExit == pc = "done" /\ Len(messages) >= 2 /\ messages[2].role = "system"

\* s can be obtained from t by deleting entries
RECURSIVE IsSubseq(_, _)
IsSubseq(s, t) ==
    IF s = <<>> THEN TRUE
    ELSE IF t = <<>> THEN FALSE
    ELSE IF Head(s) = Head(t) THEN IsSubseq(Tail(s), Tail(t))
    ELSE IsSubseq(s, Tail(t))

\* C15: no step removes an entry of messages: the entries present before a
\* step are all present after it, in the same relative order, and the length
\* does not decrease
TranscriptOnlyGrows ==
    [][IsSubseq(messages, messages') /\ Len(messages') >= Len(messages)]_vars

\* a finished turn on a session with history whose transcript received the
\* system prompt, a summary entry and a function entry
TranscriptGrewByAllMeans ==
    /\ pc = "done"
    /\ session.messages # <<>>
    /\ Len(messages) >= 2 /\ messages[2].role = "system"
    /\ \E i \in 1..Len(messages) : messages[i].role = "function"


\* the tool-call list tool_call_node worked on, and the entries it appended
BatchRan == step.node = "tool_call" /\ step.kind \in {"complete", "invalid", "error"}
Batch == step.entry_messages[Len(step.entry_messages)].tool_calls
Appended == SubSeq(messages, Len(step.entry_messages) + 1, Len(messages))

\* properties of one requested call
ArgsParse(tc) == JsonLoads(tc.arguments).ok
Registered(tc) == tc.name \in FUNCTION_NAMES
Raises(tc) == Registered(tc) /\ ArgsParse(tc) /\ CallRaises(tc.name, JsonLoads(tc.arguments).keys)
\* the call ends the batch by itself: unparseable arguments, or the invalid
\* tool returning
EndsBatch(tc) == ~ArgsParse(tc) \/ (tc.name = "invalid" /\ ~Raises(tc))
NoCallEndsBatch == \A i \in 1..Len(Batch) : ~EndsBatch(Batch[i])

\* every call of the batch got its function-role entry, in call order
EveryCallHasEntry ==
    /\ Len(Appended) = Len(Batch)
    /\ \A i \in 1..Len(Batch) :
          /\ Appended[i].role = "function"
          /\ Appended[i].tool_call_id = Batch[i].id
          /\ Appended[i].name = Batch[i].name

RaisingToolReturnsToReasoning ==
    (BatchRan /\ NoCallEndsBatch /\ \E i \in 1..Len(Batch) : Raises(Batch[i]))
        => /\ EveryCallHasEntry
           /\ \A i \in 1..Len(Batch) :
                 Raises(Batch[i]) =>
                     Appended[i].content = <<"{\"error\": \"Error executing ", Batch[i].name, ": ">>
                                               \o TypeErrorText \o <<"\"}">>
           /\ ~Truthy(response)
           /\ step.route = "cot"

\* C18: a batch of n calls that runs to its end appends exactly n
\* function-role entries, the i-th with the id and the name of the i-th call
BatchResultsInCallOrder ==
    (step.node = "tool_call" /\ step.kind = "complete") => EveryCallHasEntry

\* a completed batch of two calls to different tools
TwoCallBatchCompleted ==
    /\ step.node = "tool_call" /\ step.kind = "complete"
    /\ Len(Batch) = 2 /\ Batch[1].name # Batch[2].name

\* some reasoning call of the turn failed
CallFailed == \E i \in 1..Len(cot_log) : cot_log[i].kind = "fail"
FirstDecision == IF cot_log[1].invalid THEN "False" ELSE "True"

\* C19 (as claimed): is_financial is decided by the first reasoning pass
\* (false if it selected invalid, true otherwise) and nothing changes it
\* afterwards, a failure included
ClassificationNeverChanges ==
    /\ [](Len(cot_log) >= 1 => is_financial = FirstDecision)
    /\ [][Len(cot_log) >= 1 => is_financial' = is_financial]_vars

\* C19 (amended): is_financial is decided by the first reasoning pass and no
\* later pass or tool batch changes it, except that a pass whose LLM call
\* fails, the first or a later one, sets it to false
ClassificationFixedUnlessCallFails ==
    /\ []((Len(cot_log) >= 1 /\ ~CallFailed) => is_financial = FirstDecision)
    /\ [](CallFailed => is_financial = "False")
    /\ [][(Len(cot_log) >= 1 /\ Len(cot_log') = Len(cot_log)) => is_financial' = is_financial]_vars

\* a finished turn whose second pass selected invalid after a first pass that
\* did not, still classified as financial
LaterInvalidKeptClassification ==
    /\ pc = "done" /\ Len(cot_log) >= 2
    /\ ~cot_log[1].invalid /\ cot_log[2].invalid
    /\ is_financial = "True"

\* the invalid tool has returned in this turn
InvalidExecuted ==
    \E i \in 1..Len(messages) :
        /\ messages[i].role = "function" /\ messages[i].name = "invalid"
        /\ messages[i].content = ResultJson("invalid")

\* C20: once the invalid tool has returned, response is its error payload,
\* its entry is the last of the transcript (no later call of the batch ran),
\* the workflow is at output or ended, and no reasoning pass, tool batch,
\* summarization or LLM call follows
InvalidToolEndsTurn ==
    /\ [](InvalidExecuted =>
            /\ response = InvalidError
            /\ messages[Len(messages)].name = "invalid"
            /\ pc \in {"output", "done"}
            /\ summary_calls = 0)
    /\ [][InvalidExecuted =>
            /\ llm_calls' = llm_calls /\ summary_calls' = summary_calls
            /\ tool_passes' = tool_passes /\ messages' = messages
            /\ response' = response]_vars

\* a finished turn whose two-call batch stopped at its first call, invalid
InvalidStoppedBatchOfTwo ==
    /\ pc = "done" /\ InvalidExecuted /\ Len(messages) >= 2
    /\ LET a == messages[Len(messages) - 1]
       IN  a.role = "assistant" /\ Len(a.tool_calls) = 2 /\ a.tool_calls[1].name = "invalid"


\* user messages of the conversation, the one of this turn included once stored
UserMessagesStored == CountRole(session.messages, RoleEnum.human)

\* C11 (as claimed): in the lang_graph.py workflow, a financial turn that is
\* the 10th user message of its session runs the summarization call and, when
\* the call returns a text, leaves that text as the state's summary and as
\* the stored summary of the conversation; a turn that is the 9th user
\* message makes no summarization call
TenthMessageSummarizes ==
    (pc = "persisted" /\ is_financial = "True") =>
        /\ UserMessagesStored = LgSummaryCadence =>
              /\ summary_calls = 1
              /\ Truthy(summary) => session.summary = summary
        /\ UserMessagesStored = LgSummaryCadence - 1 => summary_calls = 0


\* the limiter would reject a call of u made now
WindowFull(u) ==
    Len(SelectSeq(request_counts[u], LAMBDA r : InWindow(clock, r.ts)))
        >= TierLimits(TierOf(u)).rpm

\* C21 (as claimed): a turn's workflow runs only after a check_rate_limit
\* call for the turn's user has returned normally, and while the user's
\* window is full no ChatState is built and no LLM call is made
TurnStartsAfterLimiter ==
    /\ pc # "idle" =>
          \E t \in Tasks : coroutines[t].user_id = TurnUser /\ coroutines[t].outcome = "accepted"
    /\ WindowFull(TurnUser) => (pc = "idle" /\ llm_calls = 0)

\* the limits the tiers are documented to have
DocumentedLimits(tier) ==
    IF tier = "paid-tier" THEN [rpm |-> 50, tpm |-> 1000] ELSE [rpm |-> 5, tpm |-> 100]

\* accepted calls of u in the 60 seconds that end at time now
AcceptedInWindow(u, now) ==
    SelectSeq(accepted, LAMBDA a : a.user = u /\ a.ts <= now /\ now - a.ts < 60)

\* C22: a call is rejected exactly when the user's accepted requests of the
\* last 60 seconds have reached the tier's rpm, or their tokens its tpm (an
\* unknown tier has the free-tier limits); an accepted call adds exactly one
\* record, (now, 10), to the user's list; and no user ever has more than rpm
\* accepted requests in a 60-second window
LimiterDecidesByWindow ==
    /\ [][\A t \in Tasks :
            (coroutines[t].pc = "cleaned" /\ coroutines'[t].pc # "cleaned") =>
                LET c == coroutines[t]
                    n == Len(AcceptedInWindow(c.user_id, c.now))
                    lim == DocumentedLimits(c.tier)
                IN  (coroutines'[t].outcome \in {"rate", "token"})
                        <=> (n >= lim.rpm \/ 10 * n >= lim.tpm)]_vars
    /\ [][\A t \in Tasks :
            (coroutines[t].pc = "counted" /\ coroutines'[t].pc = "idle") =>
                LET c == coroutines[t]
                IN  /\ coroutines'[t].outcome = "accepted"
                    /\ request_counts' = [request_counts EXCEPT ![c.user_id] =
                                             Append(@, [ts |-> c.now, tokens |-> 10])]]_vars
    /\ [](\A i \in 1..Len(accepted) :
            Len(AcceptedInWindow(accepted[i].user, accepted[i].ts))
                <= DocumentedLimits(accepted[i].tier).rpm)

\* a user of an unknown tier was rejected, and some user was accepted after
\* the records of time 0 had left the window
UnknownTierRejected ==
    /\ \E t \in Tasks : coroutines[t].tier = "trial" /\ coroutines[t].outcome = "rate"
    /\ \E i \in 1..Len(accepted) : accepted[i].ts >= 60

\* C23: with two coroutines calling check_rate_limit, in every order the
\* event loop can run them, the records of the current window in
\* request_counts are exactly the accepted calls of that window (none is
\* lost) and their number does not exceed the tier's rpm
CountersSafeUnderConcurrency ==
    \A u \in Users :
        LET kept == SelectSeq(request_counts[u], LAMBDA r : clock - r.ts < 60)
            acc == AcceptedInWindow(u, clock)
        IN  /\ Len(kept) = Len(acc)
            /\ \A i \in 1..Len(kept) : kept[i].ts = acc[i].ts
            /\ Len(acc) <= DocumentedLimits(TierOf(u)).rpm

\* both coroutines called for the same user at the same time: one was
\* accepted with the last free slot, the other rejected
TwoCallersOneSlot ==
    /\ coroutines["a"].user_id = coroutines["b"].user_id
    /\ coroutines["a"].now = coroutines["b"].now
    /\ {coroutines["a"].outcome, coroutines["b"].outcome} = {"accepted", "rate"}


\* C24 (as claimed): update_conversation_state adds exactly two messages to
\* the conversation of a turn that reached the output step, the user's
\* message with role human and then the assistant's message with role ai
\* carrying response
TurnStoresTwoMessages ==
    [][(pc = "done" /\ pc' = "persisted") =>
          session'.messages = session.messages
                                \o <<Row(RoleEnum.human, user_query),
                                     Row(RoleEnum.ai, response)>>]_vars


\* C25 (as claimed): a lang_graph.py turn that ends with is_financial false
\* ran no tool_call pass and no summarization call, and its response is the
\* fixed rejection message
NonFinancialTurnRejected ==
    (pc \in {"done", "persisted"} /\ is_financial = "False") =>
        /\ tool_passes = 0
        /\ summary_calls = 0
        /\ response = RejectionMsg


\* the fixed messages reasoning.py can show to the user
EngineMessages ==
    {MaxReasoningMsg, MaxFunctionCallsMsg, NoToolCallMsg, ClarificationMsg, InvalidError}

\* the texts of the exceptions raised inside the steps
ExceptionTexts == {LLMErrorText, JSONErrorText, TypeErrorText}

\* C26 (as claimed): in the reasoning.py workflow the response never embeds
\* the text of an internal exception, and after a reasoning pass whose LLM
\* call failed the response is one of the engine's fixed messages
FailureResponseIsFixedMessage ==
    /\ Truthy(response) => \A i \in 1..Len(response) : <<response[i]>> \notin ExceptionTexts
    /\ (step.node = "cot" /\ step.kind = "fail") => response \in EngineMessages


\* the function-role entry of the i-th call of the batch reports an error
ErrorEntry(i) ==
    /\ Appended[i].role = "function"
    /\ Appended[i].tool_call_id = Batch[i].id
    /\ Appended[i].content[1] \in {"{\"error\": \"Invalid function ", "{\"error\": \"Error executing "}

\* the step just taken met a failure: the LLM call of a reasoning pass
\* failed, or a call of the batch had an unknown name, raised, or had
\* arguments that do not parse
StepFailed ==
    \/ step.node = "cot" /\ step.kind = "fail"
    \/ BatchRan /\ \E i \in 1..Len(Batch) :
          /\ i <= Len(Appended) + 1
          /\ ~Registered(Batch[i]) \/ Raises(Batch[i]) \/ ~ArgsParse(Batch[i])

\* C27: no failure inside a step escapes the engine: every step returns to
\* the graph, a failed LLM call leaves its report in response, an unknown or
\* raising tool leaves a function-role error entry, unparseable arguments
\* leave their report in response, and the turn still reaches output and ends
FailuresStayInsideEngine ==
    /\ [](pc \in {"input", "cot", "tool_call", "summarizer", "output", "done"})
    /\ []((step.node = "cot" /\ step.kind = "fail") => Truthy(response))
    /\ [](BatchRan =>
            \A i \in 1..Len(Batch) :
                /\ (i <= Len(Appended) /\ (~Registered(Batch[i]) \/ Raises(Batch[i])))
                      => ErrorEntry(i)
                /\ (i = Len(Appended) + 1 /\ ~ArgsParse(Batch[i])) => Truthy(response))
    /\ (StepFailed ~> pc = "done")

\* a finished turn in which a tool raised and a later LLM call failed
ToolRaisedThenCallFailed ==
    /\ pc = "done"
    /\ CallFailed
    /\ \E i \in 1..Len(messages) :
          /\ messages[i].role = "function"
          /\ messages[i].content[1] = "{\"error\": \"Error executing "


\* the session a request names exists and belongs to the user that sent it
OwnSession(r) == conversations[r.session_id] # "" /\ conversations[r.session_id] = r.user

\* C28: a message posted to a session id that does not exist or belongs to
\* another user is answered with 404, stores no Message row and leaves
\* langgraph_memory as it was; restart, get and resume answer such a
\* request in the same way
ForeignSessionChangesNothing ==
    [][requests' # requests =>
          LET r == reply'
          IN  (r.endpoint \in {"message", "restart_session", "get_session", "resume_session"}
                  /\ ~OwnSession(r))
                 => /\ r.status = 404
                    /\ rows' = rows
                    /\ langgraph_memory' = langgraph_memory
                    /\ conversations' = conversations]_vars

\* a message posted to another user's session, which holds rows and a
\* history, was answered with 404
ForeignMessageRefused ==
    /\ reply.endpoint = "message"
    /\ reply.status = 404
    /\ conversations[reply.session_id] \notin {"", reply.user}
    /\ rows[reply.session_id] # <<>>
    /\ langgraph_memory[reply.session_id].history # <<>>


\* C29 (as claimed): a tool batch that runs to its end adds exactly 1 to
\* iteration, whatever its number of calls, and is followed by cot; a batch
\* ended early by the invalid tool or by a batch-level error leaves
\* iteration as it was
CompletedBatchReturnsToCot ==
    BatchRan =>
        /\ step.kind = "complete" =>
              (iteration = step.entry_iteration + 1 /\ step.route = "cot")
        /\ step.kind \in {"invalid", "error"} => iteration = step.entry_iteration


\* the documented decision tables, read on the state a step returned
LastCarriesToolCalls == Len(messages[Len(messages)].tool_calls) > 0
ResponseSet == response # None /\ response # Empty
InvalidEntryPresent ==
    \E i \in 1..Len(messages) : messages[i].role = "function" /\ messages[i].name = "invalid"
TableAfterCot ==
    CASE LastCarriesToolCalls -> "tool_call"
      [] ~LastCarriesToolCalls /\ (finish_reason = "stop" \/ ResponseSet) -> "summarizer"
      [] ~LastCarriesToolCalls /\ finish_reason # "stop" /\ ~ResponseSet
            /\ iteration < max_iterations -> "cot"
      [] OTHER -> "output"
TableAfterToolCall ==
    IF ResponseSet \/ InvalidEntryPresent THEN "output" ELSE "cot"

\* C30: the step that follows cot and the step that follows tool_call are
\* the ones the documented tables give for the state the node returned; a
\* finish_reason of 'stop' never sends a pass that produced tool calls to
\* the summarizer
RoutingFollowsTables ==
    /\ step.node = "cot" => (step.route = TableAfterCot /\ pc = step.route)
    /\ step.node = "tool_call" => (step.route = TableAfterToolCall /\ pc = step.route)
    /\ (step.node = "cot" /\ LastCarriesToolCalls) => pc = "tool_call"

\* a pass that reported finish_reason 'stop' together with tool calls went
\* to tool_call
StopWithToolCallsRanTools ==
    /\ step.node = "cot"
    /\ finish_reason = "stop"
    /\ LastCarriesToolCalls
    /\ pc = "tool_call"


\* the 'Conversation summary' system entries of a transcript
SummaryEntries(msgs) ==
    SelectSeq(msgs, LAMBDA m : /\ m.role = "system"
                               /\ Len(m.content) >= 1
                               /\ m.content[1] = "Conversation summary: ")

\* C31 (as claimed): at every point of a reasoning.py turn state.messages
\* holds at most one 'Conversation summary' system entry, however many
\* reasoning passes run
AtMostOneSummaryEntry == Len(SummaryEntries(messages)) <= 1


\* the transcript holds the current user query as a user-role entry
HasUserQuery(msgs) == \E i \in 1..Len(msgs) : msgs[i] = Msg("user", user_query)

\* C32 (as claimed): once the first reasoning pass has made its LLM call,
\* state.messages holds the current user query as a user-role entry, and the
\* transcript sent to every LLM call of the turn, reasoning pass or
\* summarization, holds it
UserQueryInTranscript ==
    llm_calls >= 1 => (HasUserQuery(messages) /\ HasUserQuery(llm_input))


\* C33 (as claimed): in the lang_graph.py workflow the cap on iteration
\* bounds the LLM calls of a turn: at no point has a turn made more than
\* max_iterations reasoning calls, function calls that tool_call_node
\* rejects included
LgCallsWithinCap == llm_calls <= max_iterations


\* C34: tool_call_node is never entered with iteration >= max_iterations,
\* so it never takes its exhaustion short-circuit and no response is ever
\* 'Unable to process query after maximum function calls.'
ToolCallBelowCap ==
    /\ pc = "tool_call" => iteration < max_iterations
    /\ ~(step.node = "tool_call" /\ step.kind = "exhausted")
    /\ response # MaxFunctionCallsMsg

\* a second tool batch is about to run with the last iteration below the cap
ToolCallAtLastIteration ==
    /\ pc = "tool_call"
    /\ tool_passes >= 1
    /\ iteration + 1 = max_iterations


\* C35: summarizer_node changes no field of the state but summary:
\* messages, response, is_financial, iteration and finish_reason are after
\* the step what they were before it, whether the summarization call
\* returns a text, returns no content or raises
SummarizerChangesOnlySummary ==
    [][pc = "summarizer" =>
          /\ messages' = messages
          /\ response' = response
          /\ is_financial' = is_financial
          /\ iteration' = iteration
          /\ finish_reason' = finish_reason]_vars

\* a summarization call failed at the end of a turn that ran a tool batch and
\* has a response
SummarizerFailedAfterTools ==
    /\ step.node = "summarizer"
    /\ step.kind = "fail"
    /\ tool_passes >= 1
    /\ Truthy(response)


\* C36: update_conversation_state keeps the stored summary of the
\* conversation when the final state's summary is empty or unset, and takes
\* the state's summary otherwise; a non-empty stored summary is never
\* replaced by an empty one
StoredSummaryNeverEmptied ==
    [][(pc = "done" /\ pc' = "persisted") =>
          /\ session'.summary = IF summary = None \/ summary = Empty
                                THEN session.summary ELSE summary
          /\ (session.summary # None /\ session.summary # Empty)
                => (session'.summary # None /\ session'.summary # Empty)]_vars

\* a turn whose summarizer left an empty summary was stored in a
\* conversation that had a summary, and the conversation still has it
EmptySummaryKeptStored ==
    /\ pc = "persisted"
    /\ summary = Empty
    /\ summary_calls >= 1
    /\ session.summary = <<"stored summary">>


\* the records of u that are less than 60 seconds old at time now
CurrentWindow(u, now) == SelectSeq(request_counts[u], LAMBDA r : now - r.ts < 60)

\* C37: a rejected call of check_rate_limit records nothing; a call drops
\* from its user's list the records that are 60 seconds old or older and
\* nothing else, so the user's counts for the current window are after a
\* rejection what they were before the call; and no call touches the
\* records of another user
RejectedCallRecordsNothing ==
    /\ [][\A t \in Tasks :
            (coroutines[t].pc = "idle" /\ coroutines'[t].pc = "cleaned") =>
                LET u == coroutines'[t].user_id
                IN  request_counts'[u] = CurrentWindow(u, clock)]_vars
    /\ [][\A t \in Tasks :
            (coroutines[t].pc = "cleaned" /\ coroutines'[t].outcome \in {"rate", "token"}) =>
                request_counts' = request_counts]_vars
    /\ [][\A u \in Users :
            (\A t \in Tasks : coroutines'[t] # coroutines[t] => coroutines'[t].user_id # u)
                => request_counts'[u] = request_counts[u]]_vars

\* a call was rejected for a user while another user has records, after the
\* clock had moved
RejectedBesideOtherUsers ==
    \E t \in Tasks :
        /\ coroutines[t].outcome = "rate"
        /\ coroutines[t].now > 0
        /\ \E u \in Users \ {coroutines[t].user_id} : request_counts[u] # <<>>


\* C38: no call of check_rate_limit is rejected for tokens: every record
\* carries 10 tokens, a user with fewer than rpm records has fewer than
\* rpm * 10 < tpm tokens recorded, so every rejection is the request-count one
TokenRejectionUnreachable ==
    /\ \A t \in Tasks : coroutines[t].outcome # "token"
    /\ \A u \in Users : SumTokens(request_counts[u]) = 10 * Len(request_counts[u])
    /\ \A t \in Tasks :
          coroutines[t].outcome = "accepted" =>
              /\ coroutines[t].recent_tokens = 10 * coroutines[t].recent_requests
              /\ coroutines[t].recent_tokens < DocumentedLimits(coroutines[t].tier).tpm

\* a paid-tier call was rejected with 50 requests and 500 tokens counted
PaidTierRejectedByCount ==
    \E t \in Tasks :
        /\ coroutines[t].tier = "paid-tier"
        /\ coroutines[t].outcome = "rate"
        /\ coroutines[t].recent_requests = 50
        /\ coroutines[t].recent_tokens = 500


\* C39: the window slides: a call drops every record that is 60 seconds old
\* or older before it counts, and a call of a user with fewer than rpm
\* accepted requests in the last 60 seconds is accepted, whatever was
\* rejected before; a rejected user is accepted again once their records
\* have aged out
WindowSlides ==
    /\ [][\A t \in Tasks :
            (coroutines[t].pc = "idle" /\ coroutines'[t].pc = "cleaned") =>
                LET kept == request_counts'[coroutines'[t].user_id]
                IN  \A i \in 1..Len(kept) : clock - kept[i].ts < 60]_vars
    /\ [][\A t \in Tasks :
            (coroutines[t].pc = "cleaned" /\ coroutines'[t].pc # "cleaned") =>
                LET c == coroutines[t]
                IN  Len(AcceptedInWindow(c.user_id, c.now)) < DocumentedLimits(c.tier).rpm
                        => coroutines'[t].pc = "counted"]_vars

\* a user rejected at one time was accepted 60 seconds later, with nothing
\* left in the window
RejectedThenAcceptedAfterWindow ==
    \E t1, t2 \in Tasks :
        /\ coroutines[t1].outcome = "rate"
        /\ coroutines[t2].outcome = "accepted"
        /\ coroutines[t1].user_id = coroutines[t2].user_id
        /\ coroutines[t2].now >= coroutines[t1].now + 60
        /\ coroutines[t2].recent_requests = 0

====
